---- MODULE Spec2Model ----
(***************************************************************************)
(* The VaultIQ frontend's query hook (useApiStream) and its callers, as a  *)
(* state machine.  The hook holds four React state cells (answer, sources, *)
(* isLoading, error); every call of query is an asynchronous invocation    *)
(* that suspends at `await fetch`, `await response.json()` and             *)
(* `await reader.read()`.  One action models one synchronous continuation  *)
(* of an invocation, i.e. everything that runs between two awaits.         *)
(*                                                                         *)
(* Text is a sequence of units.  A unit is one character; a run of letters *)
(* (a word, the content of a string literal) may be written as one unit.   *)
(*                                                                         *)
(* The mock dashboard (SmartOpsAIDashboard) is a second component with its *)
(* own state and its own specification, SpecDashboard.                     *)
(***************************************************************************)
EXTENDS Integers, Sequences, FiniteSets, TLC

\* ------------------------------------------------------------------------
\* JavaScript values
\* ------------------------------------------------------------------------

Undefined == [t |-> "undefined"]
Null == [t |-> "null"]
Str(s) == [t |-> "string", chars |-> s]
Num(n) == [t |-> "number", n |-> n]
Arr(items) == [t |-> "array", items |-> items]
Obj(members) == [t |-> "object", members |-> members]

\* '' and [] : the initial values of the state cells
EmptyString == Str(<< >>)
EmptyArray == Arr(<< >>)

\* A thrown value: an Error instance carries a message; anything else may be
\* thrown too (a rejected promise can carry any value).
Err(message) == [isError |-> TRUE, message |-> message]
NonError(v) == [isError |-> FALSE, value |-> v]

\* JavaScript's ToBoolean, as `if (jsonData.sources)` applies it.
Truthy(v) ==
  CASE v.t = "undefined" -> FALSE
    [] v.t = "null" -> FALSE
    [] v.t = "string" -> v.chars # << >>
    [] v.t = "number" -> v.n # 0
    [] OTHER -> TRUE

\* ------------------------------------------------------------------------
\* Text
\* ------------------------------------------------------------------------

Whitespace == {" ", "\n"}
Digits == {"0", "1", "2", "3", "4", "5", "6", "7", "8", "9"}
DigitValue(c) ==
  CASE c = "0" -> 0 [] c = "1" -> 1 [] c = "2" -> 2 [] c = "3" -> 3
    [] c = "4" -> 4 [] c = "5" -> 5 [] c = "6" -> 6 [] c = "7" -> 7
    [] c = "8" -> 8 [] c = "9" -> 9

\* String.prototype.trim
RECURSIVE TrimStart(_)
TrimStart(s) ==
  IF s # << >> /\ Head(s) \in Whitespace THEN TrimStart(Tail(s)) ELSE s

RECURSIVE TrimEnd(_)
TrimEnd(s) ==
  IF s # << >> /\ s[Len(s)] \in Whitespace
  THEN TrimEnd(SubSeq(s, 1, Len(s) - 1))
  ELSE s

Trim(s) == TrimEnd(TrimStart(s))

\* ------------------------------------------------------------------------
\* JSON.parse, by recursive descent over the units of the text.  The grammar
\* is JSON's, restricted to objects, arrays, strings without escapes,
\* unsigned integers and the literal null.  A parse step yields
\* [ok, v, next]: whether a value starts at the position, the value, and the
\* position after it.
\* ------------------------------------------------------------------------

Fail == [ok |-> FALSE, v |-> Undefined, next |-> 0]
Got(v, next) == [ok |-> TRUE, v |-> v, next |-> next]

RECURSIVE SkipWs(_, _)
SkipWs(s, i) ==
  IF i <= Len(s) /\ s[i] \in Whitespace THEN SkipWs(s, i + 1) ELSE i

At(s, i, c) == i <= Len(s) /\ s[i] = c

\* the position of the closing quote of the string whose content starts at i
RECURSIVE StringEnd(_, _)
StringEnd(s, i) ==
  IF i > Len(s) THEN 0
  ELSE IF s[i] = "\"" THEN i
  ELSE IF s[i] = "\n" THEN 0
  ELSE StringEnd(s, i + 1)

ParseString(s, i) ==
  IF ~At(s, i, "\"") THEN Fail
  ELSE LET e == StringEnd(s, i + 1)
       IN IF e = 0 THEN Fail ELSE Got(Str(SubSeq(s, i + 1, e - 1)), e + 1)

RECURSIVE NumberEnd(_, _)
NumberEnd(s, i) ==
  IF i <= Len(s) /\ s[i] \in Digits THEN NumberEnd(s, i + 1) ELSE i

RECURSIVE DecimalValue(_)
DecimalValue(ds) ==
  IF ds = << >> THEN 0
  ELSE 10 * DecimalValue(SubSeq(ds, 1, Len(ds) - 1)) + DigitValue(ds[Len(ds)])

\* int = "0" / digit1-9 *digit : a leading zero ends the number
ParseNumber(s, i) ==
  IF ~(i <= Len(s) /\ s[i] \in Digits) THEN Fail
  ELSE IF s[i] = "0" THEN Got(Num(0), i + 1)
  ELSE LET e == NumberEnd(s, i)
       IN Got(Num(DecimalValue(SubSeq(s, i, e - 1))), e)

ParseNull(s, i) ==
  IF i + 3 <= Len(s) /\ SubSeq(s, i, i + 3) = <<"n", "u", "l", "l">>
  THEN Got(Null, i + 4)
  ELSE Fail

RECURSIVE ParseValue(_, _)
RECURSIVE ParseElements(_, _, _)
RECURSIVE ParseMembers(_, _, _)

\* value: i is the position of its first unit (whitespace already skipped)
ParseValue(s, i) ==
  IF i > Len(s) THEN Fail
  ELSE IF s[i] = "{" THEN
    LET j == SkipWs(s, i + 1)
    IN IF At(s, j, "}") THEN Got(Obj(<< >>), j + 1)
       ELSE ParseMembers(s, j, << >>)
  ELSE IF s[i] = "[" THEN
    LET j == SkipWs(s, i + 1)
    IN IF At(s, j, "]") THEN Got(Arr(<< >>), j + 1)
       ELSE ParseElements(s, j, << >>)
  ELSE IF s[i] = "\"" THEN ParseString(s, i)
  ELSE IF s[i] \in Digits THEN ParseNumber(s, i)
  ELSE ParseNull(s, i)

\* elements of an array after "[": value *( "," value ) "]"
ParseElements(s, i, acc) ==
  LET r == ParseValue(s, i)
  IN IF ~r.ok THEN Fail
     ELSE LET j == SkipWs(s, r.next)
          IN IF At(s, j, "]") THEN Got(Arr(Append(acc, r.v)), j + 1)
             ELSE IF At(s, j, ",")
             THEN ParseElements(s, SkipWs(s, j + 1), Append(acc, r.v))
             ELSE Fail

\* members of an object after "{": string ":" value *( "," member ) "}"
ParseMembers(s, i, acc) ==
  LET k == ParseString(s, i)
  IN IF ~k.ok THEN Fail
     ELSE LET c == SkipWs(s, k.next)
          IN IF ~At(s, c, ":") THEN Fail
             ELSE LET r == ParseValue(s, SkipWs(s, c + 1))
                  IN IF ~r.ok THEN Fail
                     ELSE LET j == SkipWs(s, r.next)
                              m == Append(acc, <<k.v.chars, r.v>>)
                          IN IF At(s, j, "}") THEN Got(Obj(m), j + 1)
                             ELSE IF At(s, j, ",")
                             THEN ParseMembers(s, SkipWs(s, j + 1), m)
                             ELSE Fail

\* JSON.parse(text): ws value ws, then the end of the text; anything else is
\* a SyntaxError (ok = FALSE).
JSONParse(s) ==
  LET r == ParseValue(s, SkipWs(s, 1))
  IN IF r.ok /\ SkipWs(s, r.next) = Len(s) + 1 THEN r ELSE Fail

\* obj.name for a parsed value: the last member of that name of an object,
\* undefined on any other non-null value.  (On null the access throws; the
\* callers test for null first.)
RECURSIVE Lookup(_, _)
Lookup(members, name) ==
  IF members = << >> THEN Undefined
  ELSE LET last == members[Len(members)]
       IN IF last[1] = name THEN last[2]
          ELSE Lookup(SubSeq(members, 1, Len(members) - 1), name)

Property(v, name) ==
  IF v.t = "object" THEN Lookup(v.members, name) ELSE Undefined

\* ------------------------------------------------------------------------
\* The environment: what fetch can deliver
\* ------------------------------------------------------------------------

Range(f) == {f[k] : k \in DOMAIN f}

\* property names of the ApiQueryResponse document
AnswerKey == <<"answer">>
SourcesKey == <<"sources">>

\* A body is sent as a sequence of pieces; a chunk handed to the reader is a
\* run of one or more consecutive pieces, so the piece borders are the places
\* where the transport may split the text.  (The body of a fetch response is
\* a byte stream, which never hands out an empty chunk, and every unit here
\* is ASCII, so the decoder never holds bytes back.)
RECURSIVE Flatten(_)
Flatten(pieces) ==
  IF pieces = << >> THEN << >> ELSE Head(pieces) \o Flatten(Tail(pieces))

\* {"answer":"final","sources":[{"title":"T"}]}
DocFull ==
  << <<"{">>, <<"\"", "answer", "\"", ":">>, <<"\"", "final", "\"">>,
     <<",", "\"", "sources", "\"", ":">>,
     <<"[", "{", "\"", "title", "\"", ":", "\"", "T", "\"", "}">>,
     <<"]">>, <<"}">> >>
\* the same document followed by a line break
DocNewline == Append(DocFull, <<"\n">>)
\* {"answer":"A","sources":[]}
DocEmptySources ==
  << <<"{", "\"", "answer", "\"", ":">>, <<"\"", "A", "\"">>,
     <<",", "\"", "sources", "\"", ":">>, <<"[", "]">>, <<"}">> >>
\* {"answer":"A"}
DocNoSources == << <<"{", "\"", "answer", "\"", ":">>, <<"\"", "A", "\"">>, <<"}">> >>
\* {"sources":[]}
DocNoAnswer == << <<"{", "\"", "sources", "\"", ":">>, <<"[", "]">>, <<"}">> >>
\* Hello world, as "Hel", "lo wor", "ld"
TextHello == << <<"Hel">>, <<"lo", " ", "wor">>, <<"ld">> >>
\* 42
TextNumber == << <<"4">>, <<"2">> >>
\* null
TextNull == << <<"n", "u">>, <<"l", "l">> >>
\* a single blank
TextBlank == << <<" ">> >>
\* two documents one after the other, each sent whole:
\* {"answer":"A","sources":[]}{"answer":"final","sources":[{"title":"T"}]}
TwoDocs == <<Flatten(DocEmptySources), Flatten(DocFull)>>

Texts ==
  {DocFull, DocNewline, DocEmptySources, DocNoSources, DocNoAnswer,
   TextHello, TextNumber, TextNull, TextBlank, TwoDocs, << >>}

\* response.body: null, or a stream that delivers a text
Stream(pieces) == [t |-> "stream", pieces |-> pieces]
Bodies == {Null} \cup {Stream(b) : b \in Texts}

\* response.headers.get('content-type'): null when the header is absent
JsonType == Str(<<"application/json">>)
JsonCharsetType == Str(<<"application/json", "; charset=utf-8">>)
PlainType == Str(<<"text/plain">>)

Response(status, statusText, contentType, body) ==
  [status |-> status, statusText |-> statusText,
   contentType |-> contentType, body |-> body]

\* the responses whose status is not 2xx
FailedResponses ==
  {Response(500, "Internal Server Error", JsonType, Stream(DocFull)),
   Response(500, "Internal Server Error", PlainType, Stream(TextHello)),
   Response(404, "Not Found", Null, Null)}

OkResponses ==
  {Response(200, "OK", ct, b) : ct \in {JsonType, PlainType}, b \in Bodies}
  \cup {Response(200, "OK", JsonCharsetType, Stream(DocFull)),
        Response(200, "OK", Null, Stream(TextHello)),
        Response(204, "No Content", Null, Null)}

Responses == FailedResponses \cup OkResponses

NoResponse == Response(0, "", Null, Null)

\* Response.ok
Ok(response) == response.status \in 200..299

\* String.prototype.includes on a header value
Includes(s, part) == part \in Range(s.chars)
\* a test for the exact header value: contentType === 'application/json'
IsJsonType_Exact(contentType) == contentType = JsonType
\* contentType?.includes('application/json')
IsJsonType(contentType) ==
  contentType # Null /\ Includes(contentType, "application/json")

\* what a rejected fetch carries: a TypeError, or whatever a stubbed fetch throws
FetchRejections == {Err(<<"Failed to fetch">>), NonError(Str(<<"offline">>))}
\* the rejections of response.json()
JsonSyntaxError == Err(<<"Unexpected token in JSON">>)
BodyReadError == Err(<<"network error">>)
\* reading a property of null
NullPropertyError == Err(<<"Cannot read properties of null">>)

\* ------------------------------------------------------------------------
\* State
\* ------------------------------------------------------------------------

\* how many invocations of query may be running at the same time
MaxInFlight == 2
Invocations == 1..MaxInFlight

VARIABLES
  answer,     \* useState<string>('')
  sources,    \* useState<ApiSource[]>([])
  isLoading,  \* useState<boolean>(false)
  error,      \* useState<string | null>(null)
  inv         \* the invocations of query: where each one is suspended

\* The state of the mock dashboard (SmartOpsAIDashboard), a component of
\* its own that shares nothing with the hook.
VARIABLES
  healthScore,  \* useState(87)
  alerts,       \* useState([...]): the type of each alert in the list
  chatOpen,     \* useState(false)
  chatInput,    \* useState("")
  messages,     \* useState([...]): the chat, as React holds it
  rendered,     \* `messages` as the last render bound it for the handlers
  timers,       \* callbacks of setTimeout that have not run yet
  sends         \* calls of handleSend that were given a text

hookVars == <<answer, sources, isLoading, error, inv>>
dashVars ==
  <<healthScore, alerts, chatOpen, chatInput, messages, rendered, timers, sends>>
vars == <<answer, sources, isLoading, error, inv, healthScore, alerts, chatOpen,
          chatInput, messages, rendered, timers, sends>>

\* a chat message
Message(sender, text) == [sender |-> sender, text |-> text]
Greeting == Message("AI", <<"Hi! I'm your SmartOps assistant.">>)
Reply == Message("AI", <<"Based on SmartOps analysis, ...">>)

\* the dashboard after its first render
InitDashboard ==
  /\ healthScore = 87
  /\ alerts = <<"Critical", "Warning", "Info">>
  /\ chatOpen = FALSE
  /\ chatInput = << >>
  /\ messages = <<Greeting>>
  /\ rendered = <<Greeting>>
  /\ timers = 0
  /\ sends = 0

\* An invocation: the await it is suspended at (pc), the promise query
\* returned, the text of its request, the calls of fetch it made, the
\* response it received, the number of pieces its reader has handed out
\* (pos), its local `buffer` and the calls of setSources it made after the
\* initial clear.  superseded records that a later query was started while
\* this invocation was reading its stream.
Idle ==
  [pc |-> "idle", promise |-> "none", request |-> << >>, requests |-> 0,
   superseded |-> FALSE, response |-> NoResponse, pos |-> 0, buffer |-> << >>,
   setSourcesCalls |-> 0]

Init ==
  /\ answer = EmptyString
  /\ sources = EmptyArray
  /\ isLoading = FALSE
  /\ error = Null
  /\ inv = [i \in Invocations |-> Idle]
  /\ InitDashboard

InFlight(i) == inv[i].promise = "pending"

\* a call of query runs in the first free invocation record
FirstFree(i) == ~InFlight(i) /\ \A j \in Invocations : j < i => InFlight(j)

\* the four state cells as one record, and their assignment
Cells ==
  [answer |-> answer, sources |-> sources, isLoading |-> isLoading, error |-> error]

Set(c) ==
  /\ answer' = c.answer
  /\ sources' = c.sources
  /\ isLoading' = c.isLoading
  /\ error' = c.error

\* ------------------------------------------------------------------------
\* useApiStream
\* ------------------------------------------------------------------------

\* reset() that also calls setIsLoading(false)
ResetCells_StopsLoading(c) ==
  [c EXCEPT !.answer = EmptyString, !.sources = EmptyArray, !.error = Null,
            !.isLoading = FALSE]

\* reset() that leaves the sources
ResetCells_KeepsSources(c) ==
  [c EXCEPT !.answer = EmptyString, !.error = Null]

\* the setter calls of reset()
ResetCells(c) ==
  [c EXCEPT !.answer = EmptyString, !.sources = EmptyArray, !.error = Null]

\* query() that forgets setError(null)
StartCells_KeepsError(c) ==
  [c EXCEPT !.isLoading = TRUE, !.answer = EmptyString, !.sources = EmptyArray]

\* the setter calls at the head of query()
StartCells(c) ==
  [c EXCEPT !.isLoading = TRUE, !.error = Null,
            !.answer = EmptyString, !.sources = EmptyArray]

\* The call of fetch that follows them: invocation i is suspended at
\* `await fetch`.  An invocation that is reading its stream at this moment
\* is marked: a later query was started while its stream was being read.
Started(i, request) ==
  [j \in Invocations |->
     IF j = i
     THEN [Idle EXCEPT !.pc = "fetch", !.promise = "pending",
                       !.request = request, !.requests = 1]
     ELSE IF inv[j].pc = "read" THEN [inv[j] EXCEPT !.superseded = TRUE]
     ELSE inv[j]]

\* reset()
reset ==
  /\ Set(ResetCells(Cells))
  /\ UNCHANGED inv
  /\ UNCHANGED dashVars

\* the texts query is called with when the hook is used directly
Requests == {<<"q">>}

\* query(request), up to `await fetch(...)`
query(i) ==
  /\ FirstFree(i)
  /\ Set(StartCells(Cells))
  /\ \E request \in Requests : inv' = Started(i, request)
  /\ UNCHANGED dashVars

\* catch (err): the message recorded in error
UnknownErrorMessage == <<"An unknown error occurred">>
ErrorMessage(err) == IF err.isError THEN err.message ELSE UnknownErrorMessage

\* setIsLoading(false) left out of the finally block
Finally_KeepsLoading(i, r) ==
  /\ UNCHANGED isLoading
  /\ inv' = [inv EXCEPT ![i] =
       [r EXCEPT !.pc = "idle", !.promise = "fulfilled", !.superseded = FALSE,
                 !.pos = 0, !.buffer = << >>]]

\* finally, and the return of the async function: the promise is fulfilled
\* and the locals of the invocation are gone
Finally(i, r) ==
  /\ isLoading' = FALSE
  /\ inv' = [inv EXCEPT ![i] =
       [r EXCEPT !.pc = "idle", !.promise = "fulfilled", !.superseded = FALSE,
                 !.pos = 0, !.buffer = << >>]]

\* a catch block that throws the error on: finally runs, the promise rejects
Catch_Rethrows(i, r, err) ==
  /\ UNCHANGED error
  /\ isLoading' = FALSE
  /\ inv' = [inv EXCEPT ![i] =
       [r EXCEPT !.pc = "idle", !.promise = "rejected", !.superseded = FALSE,
                 !.pos = 0, !.buffer = << >>]]

\* a catch block that sends the request once more before it gives up
Catch_Retries(i, r, err) ==
  IF r.requests < 2
  THEN /\ inv' = [inv EXCEPT ![i] =
            [r EXCEPT !.pc = "fetch", !.requests = @ + 1, !.pos = 0,
                      !.buffer = << >>]]
       /\ UNCHANGED <<error, isLoading>>
  ELSE /\ error' = Str(ErrorMessage(err))
       /\ Finally(i, r)

\* a throw inside the try block: catch, then finally
Catch(i, r, err) ==
  /\ error' = Str(ErrorMessage(err))
  /\ Finally(i, r)

\* the status text left out of the message
RequestFailed_NoStatusText(statusText) == Err(<<"API request failed">>)
\* throw new Error(`API request failed: ${response.statusText}`)
RequestFailed(statusText) == Err(<<"API request failed: ", statusText>>)
\* throw new Error('No response body received')
NoBodyError == Err(<<"No response body received">>)
\* the stream's own error thrown on instead of the generic one
StreamError_Raw == BodyReadError
\* throw new Error('Failed to read streaming response')
StreamError == Err(<<"Failed to read streaming response">>)

\* fetch rejects
FetchRejected(i) ==
  /\ inv[i].pc = "fetch"
  /\ \E err \in FetchRejections : Catch(i, inv[i], err)
  /\ UNCHANGED <<answer, sources>>
  /\ UNCHANGED dashVars

\* fetch resolves with a response: the status check and the branch on the
\* content type, up to the next await
FetchResolved(i) ==
  /\ inv[i].pc = "fetch"
  /\ \E response \in Responses :
       LET r == [inv[i] EXCEPT !.response = response]
       IN IF ~Ok(response)
          THEN Catch(i, r, RequestFailed(response.statusText))
          ELSE IF IsJsonType(response.contentType)
          THEN /\ inv' = [inv EXCEPT ![i] = [r EXCEPT !.pc = "json"]]
               /\ UNCHANGED <<error, isLoading>>
          ELSE IF response.body # Null
          THEN /\ inv' = [inv EXCEPT ![i] = [r EXCEPT !.pc = "read"]]
               /\ UNCHANGED <<error, isLoading>>
          ELSE Catch(i, r, NoBodyError)
  /\ UNCHANGED <<answer, sources>>
  /\ UNCHANGED dashVars

\* the text response.json() decodes: a null body reads as the empty text
BodyText(response) ==
  IF response.body = Null THEN << >> ELSE Flatten(response.body.pieces)

\* the application/json branch without setSources
JsonCells_AnswerOnly(c, data) ==
  [c EXCEPT !.answer = Property(data, AnswerKey)]

\* the setter calls of the application/json branch
JsonCells(c, data) ==
  [c EXCEPT !.answer = Property(data, AnswerKey),
            !.sources = Property(data, SourcesKey)]

\* response.json() settles after the whole body was read
JsonSettled(i) ==
  /\ inv[i].pc = "json"
  /\ LET data == JSONParse(BodyText(inv[i].response))
     IN IF ~data.ok
        THEN Catch(i, inv[i], JsonSyntaxError) /\ UNCHANGED <<answer, sources>>
        ELSE IF data.v = Null
        THEN Catch(i, inv[i], NullPropertyError) /\ UNCHANGED <<answer, sources>>
        ELSE /\ answer' = JsonCells(Cells, data.v).answer
             /\ sources' = JsonCells(Cells, data.v).sources
             /\ Finally(i, [inv[i] EXCEPT !.setSourcesCalls = @ + 1])
             /\ UNCHANGED error
  /\ UNCHANGED dashVars

\* response.json() rejects because the body could not be read
JsonReadFailed(i) ==
  /\ inv[i].pc = "json"
  /\ inv[i].response.body # Null
  /\ Catch(i, inv[i], BodyReadError)
  /\ UNCHANGED <<answer, sources>>
  /\ UNCHANGED dashVars

\* a loop body whose catch branch shows the last chunk only: setAnswer(chunk)
ProcessChunk_ShowsChunk(buffer, chunk) ==
  LET b == buffer \o chunk
      jsonData == JSONParse(b)
  IN IF jsonData.ok /\ jsonData.v # Null
     THEN [buffer |-> << >>,
           setAnswer |-> <<Property(jsonData.v, AnswerKey)>>,
           setSources |->
             IF Truthy(Property(jsonData.v, SourcesKey))
             THEN <<Property(jsonData.v, SourcesKey)>>
             ELSE << >>]
     ELSE [buffer |-> b, setAnswer |-> <<Str(chunk)>>, setSources |-> << >>]

\* a loop body that puts the new chunk in front of the buffer
ProcessChunk_Prepends(buffer, chunk) ==
  LET b == chunk \o buffer
      jsonData == JSONParse(b)
  IN IF jsonData.ok /\ jsonData.v # Null
     THEN [buffer |-> << >>,
           setAnswer |-> <<Property(jsonData.v, AnswerKey)>>,
           setSources |->
             IF Truthy(Property(jsonData.v, SourcesKey))
             THEN <<Property(jsonData.v, SourcesKey)>>
             ELSE << >>]
     ELSE [buffer |-> b, setAnswer |-> <<Str(b)>>, setSources |-> << >>]

\* a loop body that leaves the parsed text in the buffer
ProcessChunk_KeepsBuffer(buffer, chunk) ==
  LET b == buffer \o chunk
      jsonData == JSONParse(b)
  IN IF jsonData.ok /\ jsonData.v # Null
     THEN [buffer |-> b,
           setAnswer |-> <<Property(jsonData.v, AnswerKey)>>,
           setSources |->
             IF Truthy(Property(jsonData.v, SourcesKey))
             THEN <<Property(jsonData.v, SourcesKey)>>
             ELSE << >>]
     ELSE [buffer |-> b, setAnswer |-> <<Str(b)>>, setSources |-> << >>]

\* One pass of the loop body for a chunk: the new buffer and the setter calls
\* (a sequence of zero or one value each).
ProcessChunk(buffer, chunk) ==
  LET b == buffer \o chunk
      jsonData == JSONParse(b)
  IN IF jsonData.ok /\ jsonData.v # Null
     THEN [buffer |-> << >>,
           setAnswer |-> <<Property(jsonData.v, AnswerKey)>>,
           setSources |->
             IF Truthy(Property(jsonData.v, SourcesKey))
             THEN <<Property(jsonData.v, SourcesKey)>>
             ELSE << >>]
     ELSE [buffer |-> b, setAnswer |-> <<Str(b)>>, setSources |-> << >>]

\* an end of stream that calls setSources([]) when no sources were parsed
FinalParse_ClearsSources(buffer) ==
  IF Trim(buffer) = << >> THEN <<EmptyArray>>
  ELSE LET finalData == JSONParse(buffer)
       IN IF finalData.ok /\ finalData.v # Null
             /\ Truthy(Property(finalData.v, SourcesKey))
          THEN <<Property(finalData.v, SourcesKey)>>
          ELSE <<EmptyArray>>

\* The end of the stream: the setter call the final parse makes.
FinalParse(buffer) ==
  IF Trim(buffer) = << >> THEN << >>
  ELSE LET finalData == JSONParse(buffer)
       IN IF finalData.ok /\ finalData.v # Null
             /\ Truthy(Property(finalData.v, SourcesKey))
          THEN <<Property(finalData.v, SourcesKey)>>
          ELSE << >>

Apply(cell, calls) == IF calls = << >> THEN cell ELSE calls[Len(calls)]

\* reader.read() resolves with a chunk
ReadChunk(i) ==
  /\ inv[i].pc = "read"
  /\ LET body == inv[i].response.body.pieces
     IN \E n \in 1..(Len(body) - inv[i].pos) :
          LET chunk == Flatten(SubSeq(body, inv[i].pos + 1, inv[i].pos + n))
              p == ProcessChunk(inv[i].buffer, chunk)
          IN /\ answer' = Apply(answer, p.setAnswer)
             /\ sources' = Apply(sources, p.setSources)
             /\ inv' = [inv EXCEPT ![i].pos = @ + n, ![i].buffer = p.buffer,
                                   ![i].setSourcesCalls = @ + Len(p.setSources)]
  /\ UNCHANGED <<error, isLoading>>
  /\ UNCHANGED dashVars

\* an end of stream that starts the reading over instead of leaving the loop
ReadDone_Restarts(i) ==
  /\ inv[i].pc = "read"
  /\ inv[i].pos = Len(inv[i].response.body.pieces)
  /\ inv' = [inv EXCEPT ![i].pos = 0, ![i].buffer = << >>]
  /\ UNCHANGED <<answer, sources, error, isLoading>>
  /\ UNCHANGED dashVars

\* reader.read() resolves with done
ReadDone(i) ==
  /\ inv[i].pc = "read"
  /\ inv[i].pos = Len(inv[i].response.body.pieces)
  /\ sources' = Apply(sources, FinalParse(inv[i].buffer))
  /\ Finally(i, [inv[i] EXCEPT
                    !.setSourcesCalls = @ + Len(FinalParse(inv[i].buffer))])
  /\ UNCHANGED <<answer, error>>
  /\ UNCHANGED dashVars

\* reader.read() rejects
ReadFailed(i) ==
  /\ inv[i].pc = "read"
  /\ Catch(i, inv[i], StreamError)
  /\ UNCHANGED <<answer, sources>>
  /\ UNCHANGED dashVars

\* the steps of an invocation after its start
Continue(i) ==
  \/ FetchRejected(i)
  \/ FetchResolved(i)
  \/ JsonReadFailed(i)
  \/ JsonSettled(i)
  \/ ReadFailed(i)
  \/ ReadChunk(i)
  \/ ReadDone(i)

\* The hook called directly: query may be called while earlier calls are
\* still running.
Next ==
  \/ reset
  \/ \E i \in Invocations : query(i)
  \/ \E i \in Invocations : Continue(i)

Spec == Init /\ [][Next]_vars

\* ------------------------------------------------------------------------
\* App and SearchBar
\* ------------------------------------------------------------------------

\* what the user can have typed into the search field
Inputs ==
  {<< >>, <<" ">>, <<" ", "\n">>, <<"q">>, <<" ", "q", " ">>, <<"a", " ", "b">>}

\* App.handleSearch(queryText): reset(), then query({query, top_k})
handleSearch(i, queryText) ==
  /\ FirstFree(i)
  /\ Set(StartCells(ResetCells(Cells)))
  /\ inv' = Started(i, queryText)
  /\ UNCHANGED dashVars

\* a submit handler that does not look at isLoading
handleSubmit_NoGuard(input) ==
  /\ Trim(input) # << >>
  /\ \E i \in Invocations : handleSearch(i, Trim(input))

\* a submit handler that tests query instead of query.trim()
handleSubmit_NoTrimTest(input) ==
  /\ input # << >>
  /\ ~isLoading
  /\ \E i \in Invocations : handleSearch(i, Trim(input))

\* SearchBar.handleSubmit: the form is submitted with the typed text
handleSubmit(input) ==
  /\ Trim(input) # << >>
  /\ ~isLoading
  /\ \E i \in Invocations : handleSearch(i, Trim(input))

\* the "Try again" button of the error card, shown while error is truthy
TryAgain ==
  /\ Truthy(error)
  /\ reset

\* the welcome panel is rendered: !answer && !isLoading && !error
WelcomeVisible == ~Truthy(answer) /\ ~isLoading /\ ~Truthy(error)

\* The hook driven by the page.
NextUI ==
  \/ \E input \in Inputs : handleSubmit(input)
  \/ TryAgain
  \/ \E i \in Invocations : Continue(i)

SpecUI == Init /\ [][NextUI]_vars

\* The same, with a transport that answers every request and a body that
\* ends or fails: an invocation that can take a step takes one.
Answered == \A i \in Invocations : WF_vars(Continue(i))

SpecUILive == SpecUI /\ Answered

\* ------------------------------------------------------------------------
\* SmartOpsAIDashboard
\* ------------------------------------------------------------------------

\* how many texts are sent in the chat
MaxSends == 2

\* what the user can have typed into the chat field
ChatInputs == {<< >>, <<" ">>, <<"a">>, <<"b">>}

\* Math.min
Min(a, b) == IF a < b THEN a ELSE b

\* Array.prototype.filter
RECURSIVE Filter(_, _)
Filter(seq, keep) ==
  IF seq = << >> THEN << >>
  ELSE IF Head(seq) \in keep THEN <<Head(seq)>> \o Filter(Tail(seq), keep)
  ELSE Filter(Tail(seq), keep)

\* a health button that adds 2 without the cap
Recalculate_NoCap ==
  /\ healthScore' = healthScore + 2
  /\ UNCHANGED <<alerts, chatOpen, chatInput, messages, rendered, timers, sends>>
  /\ UNCHANGED hookVars

\* 'Recalculate Health': setHealthScore(Math.min(100, healthScore + 2))
Recalculate ==
  /\ healthScore' = Min(100, healthScore + 2)
  /\ UNCHANGED <<alerts, chatOpen, chatInput, messages, rendered, timers, sends>>
  /\ UNCHANGED hookVars

\* handleFilterAlerts: keep the Critical alerts
handleFilterAlerts ==
  /\ alerts' = Filter(alerts, {"Critical"})
  /\ UNCHANGED <<healthScore, chatOpen, chatInput, messages, rendered, timers, sends>>
  /\ UNCHANGED hookVars

\* the floating button: setChatOpen(!chatOpen)
ToggleChat ==
  /\ chatOpen' = ~chatOpen
  /\ UNCHANGED <<healthScore, alerts, chatInput, messages, rendered, timers, sends>>
  /\ UNCHANGED hookVars

\* onChange of the chat field, which is there while the panel is open
Type(text) ==
  /\ chatOpen
  /\ chatInput' = text
  /\ UNCHANGED <<healthScore, alerts, chatOpen, messages, rendered, timers, sends>>
  /\ UNCHANGED hookVars

\* handleSend (the Send button, or Enter in the field).  The handler reads
\* `messages` and `chatInput` as the last render bound them and sets the
\* state to a new array; React renders again before the event ends.
handleSend ==
  /\ chatOpen
  /\ sends < MaxSends
  /\ IF Trim(chatInput) = << >>
     THEN UNCHANGED <<chatInput, messages, rendered, timers, sends>>
     ELSE LET newMessages == Append(rendered, Message("User", chatInput))
          IN /\ messages' = newMessages
             /\ rendered' = newMessages
             /\ chatInput' = << >>
             /\ timers' = timers + 1
             /\ sends' = sends + 1
  /\ UNCHANGED <<healthScore, alerts, chatOpen>>
  /\ UNCHANGED hookVars

\* a callback of setTimeout runs: setMessages(prev => [...prev, reply]).
\* The update is made outside an event handler, so the render that shows it
\* is a step of its own.
TimerFires ==
  /\ timers > 0
  /\ timers' = timers - 1
  /\ messages' = Append(messages, Reply)
  /\ UNCHANGED <<healthScore, alerts, chatOpen, chatInput, rendered, sends>>
  /\ UNCHANGED hookVars

\* React renders the component after an update made by a timer: the
\* handlers are bound to the current messages
Render ==
  /\ rendered # messages
  /\ rendered' = messages
  /\ UNCHANGED <<healthScore, alerts, chatOpen, chatInput, messages, timers, sends>>
  /\ UNCHANGED hookVars

NextDashboard ==
  \/ Recalculate
  \/ handleFilterAlerts
  \/ ToggleChat
  \/ \E text \in ChatInputs : Type(text)
  \/ handleSend
  \/ TimerFires
  \/ Render

SpecDashboard == Init /\ [][NextDashboard]_vars

\* ------------------------------------------------------------------------
\* Properties
\* ------------------------------------------------------------------------

\* invocation i returns in this step
Settles(i) == InFlight(i) /\ inv'[i].promise # "pending"

HasStream(response) == response.body # Null
\* the text a response carries, the empty text when it has no body
Sent(response) ==
  IF HasStream(response) THEN response.body.pieces ELSE << >>

\* the text of the chunks invocation i has read so far
Received(i) == Flatten(SubSeq(Sent(inv[i].response), 1, inv[i].pos))

\* The QueryResponse documents among the texts, with the answer and the
\* sources each one states.
Citation == Obj(<< <<<<"title">>, Str(<<"T">>)>> >>)
IsDocument(text) == text \in {DocFull, DocNewline, DocEmptySources}
DocAnswer(text) ==
  IF text = DocEmptySources THEN Str(<<"A">>) ELSE Str(<<"final">>)
DocSources(text) ==
  IF text = DocEmptySources THEN Arr(<< >>) ELSE Arr(<<Citation>>)

\* C1: a call of query, from any state, leaves answer = '', sources = [],
\* error = null and isLoading = true, before any response is processed.
C1_QueryClearsResult ==
  [][\A i \in Invocations :
       (~InFlight(i) /\ inv'[i].promise = "pending")
         => /\ answer' = EmptyString
            /\ sources' = EmptyArray
            /\ error' = Null
            /\ isLoading' = TRUE
            /\ inv'[i].pc = "fetch"]_vars

\* a second query was started while the first had already shown text
C1_Witness ==
  /\ inv[2].pc = "fetch"
  /\ inv[1].pc = "read" /\ inv[1].buffer # << >>
  /\ answer = EmptyString /\ sources = EmptyArray /\ error = Null /\ isLoading

\* C2: whenever an invocation of query returns, on any path, isLoading is
\* false in the resulting state.
C2_SettledNotLoading ==
  [][\A i \in Invocations : Settles(i) => isLoading' = FALSE]_vars

\* an invocation has returned through the catch block
C2_Witness ==
  \E i \in Invocations :
    /\ inv[i].promise = "fulfilled"
    /\ error = Str(StreamError.message)
    /\ ~isLoading

\* C3: a 2xx response declared application/json whose body is a
\* QueryResponse document ends the query with the document's answer and
\* sources, error = null and isLoading = false.
C3_JsonRoundTrip ==
  [][\A i \in Invocations :
       (JsonSettled(i) /\ IsDocument(Sent(inv[i].response)))
         => /\ answer' = DocAnswer(Sent(inv[i].response))
            /\ sources' = DocSources(Sent(inv[i].response))
            /\ error' = Null
            /\ isLoading' = FALSE]_vars

C3_Witness ==
  \E i \in Invocations :
    /\ inv[i].promise = "fulfilled"
    /\ IsJsonType(inv[i].response.contentType)
    /\ inv[i].response.body = Stream(DocFull)
    /\ answer = Str(<<"final">>)
    /\ sources = Arr(<<Citation>>)
    /\ error = Null /\ ~isLoading

\* no text the stream can have delivered up to now parses as a JSON object
NoObjectSoFar(i) ==
  \A k \in 0..inv[i].pos :
    LET prefix == JSONParse(Flatten(SubSeq(Sent(inv[i].response), 1, k)))
    IN ~(prefix.ok /\ prefix.v.t = "object")

\* C4: while a 2xx response that is not declared application/json is read
\* and no accumulated text is a complete JSON document, answer is the
\* concatenation of the chunks received so far.
C4_AnswerIsReceivedText ==
  \A i \in Invocations :
    (inv[i].pc = "read" /\ NoObjectSoFar(i)) => answer = Str(Received(i))

\* C5: a QueryResponse document delivered as chunks, split anywhere, ends
\* the query with the document's answer and sources.
C5_SplitDocumentRoundTrip ==
  [][\A i \in Invocations :
       (ReadDone(i) /\ IsDocument(Sent(inv[i].response)))
         => /\ answer' = DocAnswer(Sent(inv[i].response))
            /\ sources' = DocSources(Sent(inv[i].response))]_vars

\* C6: a response whose status is not 2xx ends the query with the status
\* text in error, isLoading = false, answer = '' and sources = [], whatever
\* its content type and body.
C6_FailedStatus ==
  [][\A i \in Invocations :
       (Settles(i) /\ inv[i].pc = "fetch"
          /\ inv'[i].response # NoResponse /\ ~Ok(inv'[i].response))
         => /\ error' # Null
            /\ Includes(error', inv'[i].response.statusText)
            /\ isLoading' = FALSE
            /\ answer' = EmptyString
            /\ sources' = EmptyArray]_vars

C6_Witness ==
  \E i \in Invocations :
    /\ inv[i].promise = "fulfilled"
    /\ inv[i].response.status = 500
    /\ inv[i].response.body = Stream(DocFull)
    /\ error = Str(<<"API request failed: ", "Internal Server Error">>)
    /\ ~isLoading /\ answer = EmptyString

\* C7: a 2xx response without a body ends the query with the message
\* 'No response body received' in error and isLoading = false, whatever its
\* content type.
C7_EmptyBody ==
  [][\A i \in Invocations :
       (Settles(i) /\ Ok(inv'[i].response) /\ ~HasStream(inv'[i].response))
         => /\ error' = Str(<<"No response body received">>)
            /\ isLoading' = FALSE]_vars

\* the step of invocation i is one in which something failed
Fails(i) ==
  \/ FetchRejected(i)
  \/ JsonReadFailed(i)
  \/ ReadFailed(i)
  \/ /\ inv[i].pc = "fetch" /\ Settles(i) /\ inv'[i].response # NoResponse
  \/ /\ JsonSettled(i)
     /\ LET data == JSONParse(Flatten(Sent(inv[i].response)))
        IN ~data.ok \/ data.v = Null

\* C8: no failure inside query reaches the caller: the promise is fulfilled
\* whenever the invocation returns, and a failure leaves error non-null.
C8_FailuresAreRecorded ==
  [][\A i \in Invocations :
       /\ Settles(i) => inv'[i].promise = "fulfilled"
       /\ Fails(i) => (Settles(i) /\ error' # Null)]_vars

\* a response that could not be decoded as JSON has been recorded
C8_Witness ==
  \E i \in Invocations :
    /\ inv[i].promise = "fulfilled"
    /\ inv[i].response.body = Stream(TextHello)
    /\ IsJsonType(inv[i].response.contentType)
    /\ error = Str(JsonSyntaxError.message)

\* C9: a failing read after k chunks ends the query with the generic stream
\* message in error, isLoading = false and answer as it was after chunk k.
C9_StreamFailureKeepsAnswer ==
  [][\A i \in Invocations :
       ReadFailed(i)
         => /\ error' = Str(<<"Failed to read streaming response">>)
            /\ isLoading' = FALSE
            /\ answer' = answer]_vars

\* the stream failed after "Hel" had been shown
C9_Witness ==
  \E i \in Invocations :
    /\ inv[i].promise = "fulfilled"
    /\ inv[i].response.body = Stream(TextHello)
    /\ error = Str(<<"Failed to read streaming response">>)
    /\ answer = Str(<<"Hel">>)
    /\ ~isLoading

\* C10: once a later query has been started while an invocation was reading
\* its stream, no later step of that invocation (chunk, end of stream,
\* failure) changes answer, sources or error.
C10_StaleInvocationIsSilent ==
  [][\A i \in Invocations :
       (inv[i].superseded /\ Continue(i))
         => UNCHANGED <<answer, sources, error>>]_vars

\* C11: driven through the page, at most one invocation of query is in
\* flight at any time.
C11_OneInFlight ==
  Cardinality({i \in Invocations : InFlight(i)}) <= 1

\* a query is streaming while the search form is there to be submitted again
C11_Witness ==
  /\ InFlight(1) /\ inv[1].pc = "read" /\ inv[1].pos > 0
  /\ isLoading
  /\ ~InFlight(2)


\* C12: within one invocation of query, setSources is called at most once
\* after the initial clear, whatever the response and its chunks.
C12_SourcesAssignedOnce ==
  \A i \in Invocations : inv[i].setSourcesCalls <= 1

\* a step of the hook that is not a step of an invocation of query
ResetStep == ~(\E i \in Invocations : query(i) \/ Continue(i))

\* C13: reset sets answer = '', sources = [] and error = null and leaves
\* everything else as it is: isLoading keeps its value, no request is issued
\* and a running invocation stays where it is.
C13_ResetFrame ==
  [][ResetStep
       => /\ answer' = EmptyString
          /\ sources' = EmptyArray
          /\ error' = Null
          /\ isLoading' = isLoading
          /\ inv' = inv]_vars

\* reset was called while a stream was being shown: the text is gone from
\* answer, the invocation still holds it and isLoading is still true
C13_Witness ==
  /\ InFlight(1) /\ inv[1].pc = "read" /\ inv[1].buffer # << >>
  /\ inv[2].promise = "none"
  /\ answer = EmptyString
  /\ isLoading

\* C14: when no query is in flight, reset yields answer = '', sources = []
\* and error = null from any state, and a second reset would change nothing.
C14_ResetIdempotent ==
  [][(ResetStep /\ \A i \in Invocations : ~InFlight(i))
       => /\ answer' = EmptyString
          /\ sources' = EmptyArray
          /\ error' = Null
          /\ ResetCells(Cells)' = Cells']_vars

\* reset was called on the result of a finished query
C14_Witness ==
  /\ inv[1].promise = "fulfilled" /\ inv[2].promise = "none"
  /\ inv[1].response = Response(200, "OK", JsonType, Stream(DocFull))
  /\ answer = EmptyString /\ sources = EmptyArray /\ error = Null
  /\ ~isLoading

\* C15: every invocation of query issues exactly one request, on every
\* path; a failure is never followed by a second request.
C15_OneRequest ==
  \A i \in Invocations : inv[i].promise # "none" => inv[i].requests = 1

\* an invocation has ended in a failure, after one request
C15_Witness ==
  \E i \in Invocations :
    /\ inv[i].promise = "fulfilled"
    /\ inv[i].response.status = 404
    /\ error = Str(<<"API request failed: ", "Not Found">>)
    /\ inv[i].requests = 1

\* no text accumulated by invocation i has parsed as JSON: the buffer still
\* holds everything that was received, and it does not parse
NeverParsed(i) ==
  /\ inv[i].buffer = Received(i)
  /\ ~JSONParse(inv[i].buffer).ok

\* C16: a 2xx streamed response whose accumulated text never parses as JSON
\* produces no error: the stream ends with error = null, sources = [],
\* isLoading = false and the whole text in answer.
C16_PlainTextStream ==
  [][\A i \in Invocations :
       /\ (ReadChunk(i) /\ NeverParsed(i)) => error' = Null
       /\ (ReadDone(i) /\ NeverParsed(i))
            => /\ error' = Null
               /\ sources' = EmptyArray
               /\ isLoading' = FALSE
               /\ answer' = Str(Flatten(Sent(inv[i].response)))]_vars

\* "Hello world" was streamed to its end and is the answer
C16_Witness ==
  \E i \in Invocations :
    /\ inv[i].promise = "fulfilled"
    /\ inv[i].response = Response(200, "OK", PlainType, Stream(TextHello))
    /\ answer = Str(<<"Hel", "lo", " ", "wor", "ld">>)
    /\ sources = EmptyArray /\ error = Null /\ ~isLoading

\* C17: the chunks of one invocation are processed one at a time in the
\* order of their arrival: a chunk is the text that follows what was read
\* before, it is appended to the buffer left by the chunk before it, and
\* when the next read is awaited the buffer and answer already show it.
C17_ChunksInOrder ==
  [][\A i \in Invocations :
       ReadChunk(i)
         => LET chunk == Flatten(SubSeq(Sent(inv[i].response),
                                        inv[i].pos + 1, inv'[i].pos))
                text == inv[i].buffer \o chunk
            IN /\ inv'[i].pos > inv[i].pos
               /\ inv'[i].pc = "read"
               /\ \/ /\ inv'[i].buffer = text
                     /\ answer' = Str(text)
                  \/ /\ inv'[i].buffer = << >>
                     /\ JSONParse(text).ok]_vars

\* "Hello wor" has been read and is shown while the next read is awaited
C17_Witness ==
  \E i \in Invocations :
    /\ inv[i].pc = "read"
    /\ inv[i].response.body = Stream(TextHello)
    /\ inv[i].pos = 2
    /\ inv[i].buffer = <<"Hel", "lo", " ", "wor">>
    /\ answer = Str(<<"Hel", "lo", " ", "wor">>)

\* C18: an input that is empty or all whitespace never starts an invocation
\* of query; the text of every invocation is the trimmed form of an input
\* and is not empty.
C18_OnlyTrimmedQueries ==
  \A i \in Invocations :
    inv[i].promise # "none"
      => /\ inv[i].request # << >>
         /\ Trim(inv[i].request) = inv[i].request
         /\ \E input \in Inputs : inv[i].request = Trim(input)

\* a request is out with the text "q", typed as "q" or as " q "
C18_Witness ==
  \E i \in Invocations :
    /\ InFlight(i) /\ inv[i].pc = "fetch"
    /\ inv[i].request = <<"q">>
    /\ inv[i].requests = 1

\* C19: when the transport answers and the body ends or fails, every
\* invocation of query returns, and isLoading is false when it does.
C19_QueryCompletes ==
  \A i \in Invocations : InFlight(i) ~> (~InFlight(i) /\ ~isLoading)

\* an invocation has read its stream to the end and has returned
C19_Witness ==
  \E i \in Invocations :
    /\ inv[i].promise = "fulfilled"
    /\ inv[i].response = Response(200, "OK", PlainType, Stream(DocFull))
    /\ answer = Str(<<"final">>)
    /\ error = Null /\ ~isLoading

\* a text accumulated by invocation i has parsed and was taken as the
\* response: the buffer no longer holds everything that was received
ParsedBefore(i) == inv[i].pc = "read" /\ inv[i].buffer # Received(i)

\* C20: once the accumulated text of a stream has parsed as a JSON
\* document, no later chunk of the same stream changes answer.
C20_AnswerFinalAfterParse ==
  [][\A i \in Invocations :
       (ParsedBefore(i) /\ ReadChunk(i)) => answer' = answer]_vars

\* C21: in every reachable state answer is a string and sources is an
\* array, whatever the server sends.
C21_WellTyped ==
  answer.t = "string" /\ sources.t = "array"

\* the response invocation i holds is declared application/json
DeclaredJson(i) ==
  /\ inv[i].response.contentType # Null
  /\ "application/json" \in Range(inv[i].response.contentType.chars)

\* C22: a body declared application/json is never shown piece by piece.
\* While it is awaited answer stays '' and isLoading true; answer is assigned
\* in the step in which the invocation returns and loading ends; and only
\* responses of another or of no content type are read chunk by chunk.
C22_JsonNotIncremental ==
  [][\A i \in Invocations :
       /\ inv[i].pc = "json"
            => (DeclaredJson(i) /\ answer = EmptyString /\ isLoading)
       /\ (inv[i].pc = "json" /\ answer' # answer)
            => (isLoading' = FALSE /\ inv'[i].promise = "fulfilled")
       /\ (InFlight(i) /\ DeclaredJson(i)) => inv[i].pc = "json"
       /\ inv'[i].pc = "read" => ~DeclaredJson(i)']_vars

\* the whole body of an application/json response is being awaited
C22_Witness ==
  \E i \in Invocations :
    /\ inv[i].pc = "json"
    /\ inv[i].response = Response(200, "OK", JsonCharsetType, Stream(DocFull))
    /\ answer = EmptyString /\ isLoading


\* C23: the end of the stream changes at most sources: answer, error and
\* the number of requests stay as they are, and sources changes only when
\* the buffer is not blank and parses as JSON with a sources member.
C23_EndOfStreamFrame ==
  [][\A i \in Invocations :
       ReadDone(i)
         => /\ answer' = answer
            /\ error' = error
            /\ inv'[i].requests = inv[i].requests
            /\ sources' # sources
                 => LET finalData == JSONParse(inv[i].buffer)
                    IN /\ Trim(inv[i].buffer) # << >>
                       /\ finalData.ok
                       /\ finalData.v.t = "object"
                       /\ \E k \in DOMAIN finalData.v.members :
                            finalData.v.members[k][1] = SourcesKey]_vars

\* a stream has ended with a blank buffer: the document's sources and the
\* line break shown as the answer are as the last chunk left them
C23_Witness ==
  \E i \in Invocations :
    /\ inv[i].promise = "fulfilled"
    /\ inv[i].response = Response(200, "OK", PlainType, Stream(DocNewline))
    /\ answer = Str(<<"\n">>)
    /\ sources = Arr(<<Citation>>)
    /\ error = Null /\ ~isLoading

\* C24: the final parse at the end of the stream never sets sources: the
\* buffer is then empty, or it is a text that the loop body could not take
\* as a document on the last chunk, and sources stays as it was.
C24_FinalParseNeverSets ==
  [][\A i \in Invocations :
       ReadDone(i)
         => LET finalData == JSONParse(inv[i].buffer)
            IN /\ sources' = sources
               /\ inv'[i].setSourcesCalls = inv[i].setSourcesCalls
               /\ \/ inv[i].buffer = << >>
                  \/ ~finalData.ok
                  \/ finalData.v = Null]_vars

\* a stream has ended after its document was taken from a chunk: sources
\* was set once, by the chunk
C24_Witness ==
  \E i \in Invocations :
    /\ inv[i].promise = "fulfilled"
    /\ inv[i].response = Response(200, "OK", PlainType, Stream(DocEmptySources))
    /\ answer = Str(<<"A">>)
    /\ sources = EmptyArray
    /\ inv[i].setSourcesCalls = 1
    /\ error = Null /\ ~isLoading

\* C25: with direct calls of query, isLoading is true in every state in
\* which some invocation is still in flight.
C25_LoadingWhileInFlight ==
  (\E i \in Invocations : InFlight(i)) => isLoading

\* C26: 'Try again' on a displayed error sends the failed query once more:
\* the step starts an invocation with the same text and isLoading is true
\* after it.
C26_TryAgainRetries ==
  [][TryAgain
       => /\ isLoading' = TRUE
          /\ \E i \in Invocations :
               /\ inv[i].promise = "fulfilled"
               /\ inv'[i].promise = "pending"
               /\ inv'[i].pc = "fetch"
               /\ inv'[i].request = inv[i].request]_vars

\* C27: the welcome panel is shown only while no query has been made yet.
C27_WelcomeOnlyAtStart ==
  WelcomeVisible => \A i \in Invocations : inv[i].promise = "none"

IsPrefix(a, b) == Len(a) <= Len(b) /\ SubSeq(b, 1, Len(a)) = a
Count(seq, sender) == Cardinality({k \in DOMAIN seq : seq[k].sender = sender})

\* C28: in the dashboard chat every send of a non-blank text appends one
\* User message and every timer one AI reply; the chat only grows at its
\* end, so no message is lost or reordered; a blank text appends nothing;
\* and when no timer is pending there is one AI message more than there are
\* User messages.
C28_ChatKeepsEveryMessage ==
  [][/\ IsPrefix(messages, messages')
     /\ sends' # sends
          => messages' = Append(messages, Message("User", chatInput))
     /\ timers' < timers => messages' = Append(messages, Reply)
     /\ messages' # messages
          => \/ /\ messages' = Append(messages, Message("User", chatInput))
                /\ Trim(chatInput) # << >>
                /\ timers' = timers + 1
             \/ /\ messages' = Append(messages, Reply)
                /\ timers' = timers - 1
     /\ timers' = 0
          => Count(messages', "AI") = Count(messages', "User") + 1]_vars

\* C29: healthScore stays within 87..100 and never decreases; each
\* 'Recalculate Health' adds 2, capped at 100, and leaves 100 as it is.
C29_HealthScoreCapped ==
  [][/\ healthScore \in 87..100
     /\ healthScore' \in 87..100
     /\ healthScore' >= healthScore
     /\ Recalculate
          => healthScore' = (IF healthScore + 2 > 100 THEN 100 ELSE healthScore + 2)
     /\ (Recalculate /\ healthScore = 100) => healthScore' = 100]_vars

\* the score has reached 100, through the cap (99 + 2)
C29_Witness ==
  healthScore = 100
====
